---- MODULE Spec2Model ----
(***************************************************************************)
(* Model of pydass_vasp: band-structure reconstruction (plot_bs), the      *)
(* effective-mass helpers (find_band_edges, get_reduced_effective_mass)    *)
(* and the density-of-states readers (get_tdos, get_ldos).                 *)
(*                                                                         *)
(* Conventions.                                                            *)
(*  - Python sequences are 0-based, TLA+ sequences 1-based: Python index   *)
(*    i is TLA+ index i + 1.  At(s, i) reads Python index i.               *)
(*  - An optional value (None or v) is the sequence <<>> or <<v>>.         *)
(*  - Real numbers are integers in units of the numeric resolution; a      *)
(*    square root or a quotient is rounded down to that resolution.        *)
(*  - A failed call has pc = "failed" and err = the exception's name.      *)
(***************************************************************************)
EXTENDS Integers, Sequences, FiniteSets, TLC

\* ---- bounds of the model --------------------------------------------------
MaxCoord == 2
MaxKps == 4
MaxBands == 2
MaxEnergy == 5
MaxNEDOS == 2

\* ---- generic helpers ------------------------------------------------------
None == <<>>
Some(v) == <<v>>
Val(o) == o[1]

\* Python truth value of an optional number: None and 0 are false.
TruthyNum(o) == o # <<>> /\ o[1] # 0
\* Python truth value of an optional list: None and [] are false.
TruthyList(o) == o # <<>> /\ o[1] # <<>>

At(s, i) == s[i + 1]
InRange(s, i) == i >= 0 /\ i < Len(s)
Range0(n) == 0 .. (n - 1)
Last(s) == s[Len(s)]

RECURSIVE SumSeq(_)
SumSeq(s) == IF s = <<>> THEN 0 ELSE s[1] + SumSeq(Tail(s))

RECURSIVE Flatten(_)
Flatten(ss) == IF ss = <<>> THEN <<>> ELSE ss[1] \o Flatten(Tail(ss))

SeqRange(s) == { s[i] : i \in 1 .. Len(s) }

\* floor of the square root
ISqrt(n) == CHOOSE r \in 0 .. n : r * r <= n /\ (r + 1) * (r + 1) > n

\* Python 2 integer division of non-negative operands
FloorDiv(a, b) == a \div b

\* ---- paths and format dispatch -------------------------------------------
\* A path is a sequence of pieces; re.match(r".*\.xml", p) succeeds when some
\* prefix of p ends with ".xml", re.match(r".*EIGENVAL.*", p) when the piece
\* EIGENVAL occurs anywhere.
PathXml == << "vasprun", ".xml" >>
PathEigenval == << "EIGENVAL" >>
PathDoscar == << "DOSCAR" >>
PathOther == << "bands.dat" >>
\* a tabular file in a directory whose name holds ".xml"
PathEigenvalUnderXml == << "run", ".xml", ".old/", "EIGENVAL" >>
PathDoscarUnderXml == << "run", ".xml", ".old/", "DOSCAR" >>

MatchXml(path) == \E i \in 1 .. Len(path) : path[i] = ".xml"
MatchEigenval(path) == \E i \in 1 .. Len(path) : path[i] = "EIGENVAL"
MatchDoscar(path) == \E i \in 1 .. Len(path) : path[i] = "DOSCAR"

\* bs.py 141, 184 and dos.py 41, 68, 172, 215: the reader a path is sent to
BsDispatch(path) ==
    IF MatchXml(path) THEN "xml" ELSE IF MatchEigenval(path) THEN "table" ELSE "none"
DosDispatch(path) ==
    IF MatchXml(path) THEN "xml" ELSE IF MatchDoscar(path) THEN "table" ELSE "none"

\* ---- the files of a VASP run ---------------------------------------------
\* A run is what VASP computed: [ISPIN, Ef, NBANDS, per (k-points per line
\* section), kpts (the k-points, <<x, y, z>> each, in path order) and
\* raw[spin][k-point][band], the eigenvalues].  The writers below lay a run
\* out as the files the readers index into.

\* EIGENVAL: rows of tokens. Rows 0..5 are the header, row 5 holding
\* <<nelect, N_kps, N_bands>>; then per k-point a blank row, the k-point row
\* <<x, y, z, weight>> and one row <<band, e_up[, e_down]>> per band.
EigenvalBandRow(run, kp, band) ==
    IF run.ISPIN = 2
    THEN << band, run.raw[1][kp][band], run.raw[2][kp][band] >>
    ELSE << band, run.raw[1][kp][band] >>

EigenvalBlock(run, kp) ==
    << <<>>, run.kpts[kp] \o << 1 >> >>
        \o [ band \in 1 .. run.NBANDS |-> EigenvalBandRow(run, kp, band) ]

EigenvalFile(run) ==
    << << 0 >>, << 1, 1, 1, run.ISPIN >>, << 0 >>, << 0 >>, << 0 >>,
       << 0, Len(run.kpts), run.NBANDS >> >>
        \o Flatten([ kp \in 1 .. Len(run.kpts) |-> EigenvalBlock(run, kp) ])

\* vasprun.xml: the nodes plot_bs addresses. ngen is the number of <v> nodes
\* under kpoints/generation; eig[spin] maps the number n of a
\* set[@comment='kpoint n'] to the energies of its <r> nodes, tagBase being the
\* number the file gives its first k-point.
XmlFile(run, nsec, tagBase) ==
    [ ISPIN |-> run.ISPIN, efermi |-> run.Ef, NBANDS |-> run.NBANDS,
      divisions |-> run.per, ngen |-> nsec + 1, kpointlist |-> run.kpts,
      eig |-> [ s \in 1 .. run.ISPIN |->
                  [ t \in tagBase .. (tagBase + Len(run.kpts) - 1) |->
                      run.raw[s][t - tagBase + 1] ] ] ]

\* OUTCAR, as the readers see it: the values of its "E-fermi :" lines in file
\* order, whether the "k-points in units of 2pi/SCALE and weight:" line is
\* there, the labels on it, and the k-point rows <<x, y, z, weight>> after it.
OutcarFile(efermi, marker, labels, kpts) ==
    [ efermi |-> efermi, marker |-> marker, labels |-> labels,
      kpts |-> [ i \in 1 .. Len(kpts) |-> kpts[i] \o << 1 >> ] ]

\* DOSCAR: rows of tokens. Rows 0..4 header, row 5 <<Emax, Emin, NEDOS, Ef, 1>>,
\* then NEDOS rows <<E, dos, int>> (ISPIN 1) or <<E, up, down, intup, intdown>>.
DoscarHeader(nedos, ef) ==
    << << 1 >>, << 0 >>, << 0 >>, << 0 >>, << 0 >>,
       << 0, 0, nedos, ef, 1 >> >>

\* KPOINTS: line 0 is the comment line (the labels, dash separated), line 1
\* the number of k-points per line section, or <<>> when it is no integer.
KpointsFile(labels, per) == [ line0 |-> labels, line1 |-> per ]

\* A density-of-states run: [ISPIN, Ef, energies (the NEDOS grid), natoms].
\* Row i of the total DOS is <<E, dos, integrated>>, with ISPIN 2
\* <<E, up, down, integrated up, integrated down>>; row i of atom a's
\* projected DOS (LORBIT 10) is <<E, s, p, d>>, with ISPIN 2
\* <<E, s up, s down, p up, p down, d up, d down>>.
DosRun(ispin, ef, energies, natoms) ==
    [ ISPIN |-> ispin, Ef |-> ef, energies |-> energies, natoms |-> natoms ]

TotalRow(run, s, i) == << run.energies[i], i + s, 2 * i + s >>
PartialRow(run, atom, s, i) == << run.energies[i], atom + s, atom + i, s + i >>

\* the columns of spin 1 and spin 2 side by side, as DOSCAR holds them
Interleave(up, down) ==
    << up[1] >> \o Flatten([ c \in 1 .. (Len(up) - 1) |-> << up[c + 1], down[c + 1] >> ])

DoscarRow(run, up, down) ==
    IF run.ISPIN = 2 THEN Interleave(up, down) ELSE up

DoscarAtomBlock(run, atom) ==
    LET row(s, i) == PartialRow(run, atom, s, i)
    IN  << << 0, 0, Len(run.energies), run.Ef, 1 >> >>
          \o [ i \in 1 .. Len(run.energies) |-> DoscarRow(run, row(1, i), row(2, i)) ]

DoscarFile(run) ==
    LET row(s, i) == TotalRow(run, s, i)
    IN  DoscarHeader(Len(run.energies), run.Ef)
          \o [ i \in 1 .. Len(run.energies) |-> DoscarRow(run, row(1, i), row(2, i)) ]
          \o Flatten([ atom \in 1 .. run.natoms |-> DoscarAtomBlock(run, atom) ])

\* vasprun.xml, the nodes get_tdos and get_ldos address
XmlDosFile(run) ==
    [ NEDOS |-> Len(run.energies), efermi |-> run.Ef, ISPIN |-> run.ISPIN,
      total |-> [ s \in 1 .. run.ISPIN |->
                    [ i \in 1 .. Len(run.energies) |-> TotalRow(run, s, i) ] ],
      partial |-> [ atom \in 1 .. run.natoms |->
                    [ s \in 1 .. run.ISPIN |->
                        [ i \in 1 .. Len(run.energies) |-> PartialRow(run, atom, s, i) ] ] ] ]

\* ---- state ----------------------------------------------------------------
VARIABLES
    call,       \* the function called: "plot_bs", "get_tdos" or "get_ldos"
    args,       \* its arguments, by name
    files,      \* the files of the working directory: file name -> None or Some(content)
    source,     \* the run the primary file was written from
    then,       \* what the caller does with plot_bs's result
    pc, err,    \* position in the call, and the exception that ended it
    parser,     \* the reader the primary file was sent to: "xml", "table", "none"
    ISPIN, Ef, N_bands, N_kps, N_kps_per_section, N_kp_sections,
    reciprocal_points, kps,
    reciprocal_point_locations, kps_linearized,
    E, E_spin1, E_spin2,
    return_dict,
    result,     \* what find_band_edges / get_reduced_effective_mass gave
    plotted     \* the curves get_tdos / get_ldos drew (plot = True)

inputs == << call, args, files, source, then >>
meta == << parser, ISPIN, Ef, N_bands, N_kps, N_kps_per_section, N_kp_sections,
           reciprocal_points, kps >>
axis == << reciprocal_point_locations, kps_linearized >>
tables == << E, E_spin1, E_spin2 >>
vars == << inputs, pc, err, meta, axis, tables, return_dict, result, plotted >>

Ok(v) == [ err |-> "", val |-> v ]
Raise(e) == [ err |-> e, val |-> <<>> ]

\* ---- plot_bs: metadata resolution, vasprun.xml ---------------------------
\* xml_utils.parse(path): the tree of an XML file; a file that is no XML has
\* none
parse(fs) == IF fs.kind = "xml" THEN Ok(Val(fs.primary)) ELSE Raise("ParseError")

\* lines 144-148
XmlISPIN(argISPIN, xml) ==
    IF TruthyNum(argISPIN) THEN argISPIN ELSE Some(xml.ISPIN)

\* lines 149-152
XmlEf(argEf, xml) ==
    IF TruthyNum(argEf) THEN argEf ELSE Some(xml.efermi)

\* line 155: the argument is overwritten by the file's divisions
XmlNkpsPerSection(argN, xml) == Some(xml.divisions)

\* line 156
XmlNkpSections(xml) == xml.ngen - 1

\* lines 158-159
XmlCountAssert(per, sections, nkps) == per * sections = nkps

\* lines 161-178: the labels; OUTCAR first, KPOINTS only when OUTCAR cannot be
\* opened. An OUTCAR without the marker line leaves the argument as it was.
XmlReciprocalPoints(argLabels, fs) ==
    IF TruthyList(argLabels) THEN argLabels
    ELSE IF fs.OUTCAR # None
         THEN IF Val(fs.OUTCAR).marker THEN Some(Val(fs.OUTCAR).labels) ELSE argLabels
         ELSE IF fs.KPOINTS # None
              THEN Some(Val(fs.KPOINTS).line0)
              ELSE argLabels

\* lines 180-182: kps[n_kp] = elem.text.split()[0] stores the first coordinate
\* in all three components of the row
XmlKps(xml) ==
    [ n \in 1 .. Len(xml.kpointlist) |->
        << xml.kpointlist[n][1], xml.kpointlist[n][1], xml.kpointlist[n][1] >> ]

\* What the resolution leaves in the locals; err names the exception, if any.
Meta(e, ispin, ef, nb, nk, per, nsec, labels, k) ==
    [ err |-> e, ISPIN |-> ispin, Ef |-> ef, N_bands |-> nb, N_kps |-> nk,
      N_kps_per_section |-> per, N_kp_sections |-> nsec,
      reciprocal_points |-> labels, kps |-> k ]

\* lines 141-182
ResolveXml(a, fs) ==
    LET xml == parse(fs).val
        ispin == XmlISPIN(a.ISPIN, xml)
        ef == XmlEf(a.Ef, xml)
        per == XmlNkpsPerSection(a.N_kps_per_section, xml)
        nsec == XmlNkpSections(xml)
        nk == Len(xml.kpointlist)
    IN  IF ~XmlCountAssert(Val(per), nsec, nk)
        THEN Meta("AssertionError", ispin, ef, xml.NBANDS, nk, per, nsec,
                  a.reciprocal_points, <<>>)
        ELSE Meta("", ispin, ef, xml.NBANDS, nk, per, nsec,
                  XmlReciprocalPoints(a.reciprocal_points, fs), XmlKps(xml))

\* ---- plot_bs: metadata resolution, EIGENVAL ------------------------------
\* helpers.determine_tag_value('ISPIN'): looks the tag up in OUTCAR/INCAR and
\* fails when neither gives it.
determine_tag_value(fs) ==
    IF fs.tagISPIN = None THEN Raise("MissingMetadata") ELSE Ok(fs.tagISPIN)

\* lines 185-189
EigISPIN(argISPIN, fs) ==
    IF TruthyNum(argISPIN) THEN Ok(argISPIN) ELSE determine_tag_value(fs)

\* lines 190-207: OUTCAR is scanned to its end, the last "E-fermi :" line
\* wins and none leaves Ef as it was; DOSCAR is read only when OUTCAR cannot
\* be opened.
EigEf(argEf, fs) ==
    IF TruthyNum(argEf) THEN Ok(argEf)
    ELSE IF fs.OUTCAR # None
         THEN IF Val(fs.OUTCAR).efermi = <<>>
              THEN Ok(argEf)
              ELSE Ok(Some(Last(Val(fs.OUTCAR).efermi)))
         ELSE IF fs.DOSCAR # None
              THEN LET rows == Val(fs.DOSCAR)
                       line == IF Len(rows) >= 6 THEN rows[6] ELSE <<>>
                   IN  IF InRange(line, 3) THEN Ok(Some(At(line, 3)))
                       ELSE Raise("IndexError")
              ELSE Raise("IOError")

\* lines 214-217
EigNbands(rows) == At(At(rows, 5), 2)
EigNkps(rows) == At(At(rows, 5), 1)

\* lines 219-229
EigNkpsPerSection(argN, fs) ==
    IF TruthyNum(argN) THEN Ok(argN)
    ELSE IF fs.KPOINTS # None
         THEN IF Val(fs.KPOINTS).line1 = None THEN Raise("ValueError")
              ELSE Ok(Val(fs.KPOINTS).line1)
         ELSE Raise("IOError")

\* line 231: Python 2 integer division
EigNkpSections(nkps, per) == FloorDiv(nkps, per)

\* lines 236-243: the labels, taken from the marker line of OUTCAR
EigReciprocalPoints(argLabels, outcar) ==
    IF ~outcar.marker THEN argLabels
    ELSE IF TruthyList(argLabels) THEN argLabels
    ELSE Some(outcar.labels)

\* lines 244-245: the N_kps rows after the marker line, three tokens each
EigKps(outcar, nkps) ==
    IF nkps = 0 THEN Ok(<<>>)
    ELSE IF ~outcar.marker \/ Len(outcar.kpts) < nkps THEN Raise("StopIteration")
    ELSE Ok([ kp \in 1 .. nkps |-> SubSeq(outcar.kpts[kp], 1, 3) ])

\* lines 184-245
ResolveEigenval(a, fs) ==
    LET ispin == EigISPIN(a.ISPIN, fs)
        ef == EigEf(a.Ef, fs)
        rows == Val(fs.primary)
        nb == EigNbands(rows)
        nk == EigNkps(rows)
        per == EigNkpsPerSection(a.N_kps_per_section, fs)
        nsec == EigNkpSections(nk, Val(per.val))
        labels == EigReciprocalPoints(a.reciprocal_points, Val(fs.OUTCAR))
        k == EigKps(Val(fs.OUTCAR), nk)
        keep == a.reciprocal_points
    IN  IF ispin.err # "" THEN Meta(ispin.err, a.ISPIN, a.Ef, 0, 0, a.N_kps_per_section, 0, keep, <<>>)
        ELSE IF ef.err # "" THEN Meta(ef.err, ispin.val, a.Ef, 0, 0, a.N_kps_per_section, 0, keep, <<>>)
        ELSE IF per.err # "" THEN Meta(per.err, ispin.val, ef.val, nb, nk, a.N_kps_per_section, 0, keep, <<>>)
        ELSE IF Val(per.val) = 0 THEN Meta("ZeroDivisionError", ispin.val, ef.val, nb, nk, per.val, 0, keep, <<>>)
        ELSE IF fs.OUTCAR = None THEN Meta("IOError", ispin.val, ef.val, nb, nk, per.val, nsec, keep, <<>>)
        ELSE IF k.err # "" THEN Meta(k.err, ispin.val, ef.val, nb, nk, per.val, nsec, labels, <<>>)
        ELSE Meta("", ispin.val, ef.val, nb, nk, per.val, nsec, labels, k.val)

\* lines 141, 184: the format is chosen by the name of the input file; a name
\* that matches neither pattern leaves every local unset, and line 249 fails.
ResolveMeta(a, fs) ==
    IF BsDispatch(a.input_file) = "xml"
    THEN IF parse(fs).err # ""
         THEN Meta(parse(fs).err, a.ISPIN, a.Ef, 0, 0, a.N_kps_per_section, 0,
                   a.reciprocal_points, <<>>)
         ELSE ResolveXml(a, fs)
    ELSE IF BsDispatch(a.input_file) = "table" THEN ResolveEigenval(a, fs)
    ELSE Meta("NameError", a.ISPIN, a.Ef, 0, 0, a.N_kps_per_section, 0,
              a.reciprocal_points, <<>>)

\* ---- plot_bs: the linearized k-axis (lines 247-262) ----------------------
\* np.linalg.norm of a 3-vector
Norm(d) == ISqrt(d[1] * d[1] + d[2] * d[2] + d[3] * d[3])

Diff(p, q) == << p[1] - q[1], p[2] - q[2], p[3] - q[3] >>

\* lines 249-252: first and last k-point of each section
KpSectionPairs(k, per, nsec) ==
    [ section \in 1 .. nsec |->
        << At(k, per * (section - 1)), At(k, per * section - 1) >> ]

\* lines 255, 258-259: cumulative section lengths, starting at 0
RECURSIVE ReciprocalPointLocations(_)
ReciprocalPointLocations(pairs) ==
    IF pairs = <<>> THEN << 0 >>
    ELSE LET before == ReciprocalPointLocations(SubSeq(pairs, 1, Len(pairs) - 1))
             pair == Last(pairs)
         IN  Append(before, Last(before) + Norm(Diff(pair[2], pair[1])))

\* np.linspace with endpoint=False: num values, stop not among them
LinspaceNoEndpoint(start, stop, num) ==
    [ j \in 1 .. num |-> start + ((j - 1) * (stop - start)) \div num ]

\* np.linspace(start, stop, num): num evenly spaced values, the last one set
\* to stop; a single value is start
Linspace(start, stop, num) ==
    IF num = 1 THEN << start >>
    ELSE [ j \in 1 .. num |->
             IF j = num THEN stop
             ELSE start + ((j - 1) * (stop - start)) \div (num - 1) ]

\* lines 256-262
KpsLinearized(locations, per, nsec) ==
    Flatten([ section \in 1 .. nsec |->
                Linspace(locations[section], locations[section + 1], per) ])

\* ---- plot_bs: extraction (lines 278-315) ---------------------------------
\* The <r> nodes of set[@comment='spin s']/set[@comment='kpoint n'], first
\* token of each; no such set gives no node.
XmlNodes(xml, spin, n) ==
    IF spin \in DOMAIN xml.eig /\ n \in DOMAIN xml.eig[spin]
    THEN xml.eig[spin][n] ELSE <<>>

\* lines 281-286 (and 289-300): a table of zeros, filled node by node; a
\* node beyond N_bands is an IndexError
ExtractXml(xml, spin, nkps, nbands) ==
    IF \E n \in Range0(nkps) : Len(XmlNodes(xml, spin, n)) > nbands
    THEN Raise("IndexError")
    ELSE Ok([ kp \in 1 .. nkps |->
                [ band \in 1 .. nbands |->
                    IF band <= Len(XmlNodes(xml, spin, kp - 1))
                    THEN XmlNodes(xml, spin, kp - 1)[band] ELSE 0 ] ])

\* the rows counted from the k-point row of the first block, one row early
EigenvalRowFromHeader(kp, band, nbands) == 7 + band + (nbands + 2) * kp

\* lines 307, 314-315: the row of EIGENVAL holding (kp, band), 0-based
EigenvalRow(kp, band, nbands) == 8 + band + (nbands + 2) * kp

\* lines 304-307 (and 310-315): token spin of that row
ExtractEigenval(rows, spin, nkps, nbands) ==
    IF \E kp \in Range0(nkps), band \in Range0(nbands) :
          \/ ~InRange(rows, EigenvalRow(kp, band, nbands))
          \/ ~InRange(At(rows, EigenvalRow(kp, band, nbands)), spin)
    THEN Raise("IndexError")
    ELSE Ok([ kp \in 1 .. nkps |->
                [ band \in 1 .. nbands |->
                    At(At(rows, EigenvalRow(kp - 1, band - 1, nbands)), spin) ] ])

\* lines 279, 302: one table per spin channel, from the format's reader
Extract(a, fs, spin, nkps, nbands) ==
    IF BsDispatch(a.input_file) = "xml" THEN ExtractXml(parse(fs).val, spin, nkps, nbands)
    ELSE ExtractEigenval(Val(fs.primary), spin, nkps, nbands)

\* ---- plot_bs: shift and result (lines 317-359) ---------------------------
\* lines 319, 333-334: table -= Ef
Shift(table, ef) ==
    [ kp \in 1 .. Len(table) |->
        [ band \in 1 .. Len(table[kp]) |-> table[kp][band] - ef ] ]

\* lines 330, 346, 350: np.column_stack((kps_linearized, table))
ColumnStack(axisvals, table) ==
    [ kp \in 1 .. Len(table) |-> << axisvals[kp] >> \o table[kp] ]

\* ---- find_band_edges (lines 10-29) ---------------------------------------
\* np.where(cond) for a 1-D cond: a tuple holding one array, the indices
\* (0-based) where cond is true. E[kp_edge] of a 2-D array is 1-D.
NpWhere(cond) == << { i \in Range0(Len(cond)) : At(cond, i) } >>

\* lines 25-29: both searches take element [1] of np.where's tuple
find_band_edges(kp_edge, prec_range, table) ==
    LET row == At(table, kp_edge)
        valence == NpWhere([ b \in 1 .. Len(row) |-> row[b] > -prec_range /\ row[b] < 0 ])
        conduction == NpWhere([ b \in 1 .. Len(row) |-> row[b] < prec_range /\ row[b] > 0 ])
    IN  IF ~InRange(valence, 1) \/ ~InRange(conduction, 1)
        THEN [ err |-> "IndexError", valence |-> {}, conduction |-> {} ]
        ELSE [ err |-> "", valence |-> At(valence, 1), conduction |-> At(conduction, 1) ]

\* ---- get_reduced_effective_mass (lines 32-71) ----------------------------
\* Python slice s[lo : hi] with 0 <= lo: the element at hi left out
SliceExclusive(s, lo, hi) ==
    IF lo >= hi \/ lo >= Len(s) THEN <<>>
    ELSE SubSeq(s, lo + 1, IF hi > Len(s) THEN Len(s) ELSE hi)

\* Python slice s[lo : hi + 1] with 0 <= lo
Slice(s, lo, hi) ==
    IF lo > hi \/ lo >= Len(s) THEN <<>>
    ELSE SubSeq(s, lo + 1, IF hi + 1 > Len(s) THEN Len(s) ELSE hi + 1)

RECURSIVE SumPow(_, _, _)
\* sum of x^k * y over the samples
SumPow(xs, ys, k) ==
    IF xs = <<>> THEN 0
    ELSE (CASE k = 0 -> 1 [] k = 1 -> xs[1] [] k = 2 -> xs[1] * xs[1]
            [] k = 3 -> xs[1] * xs[1] * xs[1]
            [] OTHER -> xs[1] * xs[1] * xs[1] * xs[1]) * ys[1]
         + SumPow(Tail(xs), Tail(ys), k)

Ones(xs) == [ i \in 1 .. Len(xs) |-> 1 ]

Det3(m) ==
      m[1][1] * (m[2][2] * m[3][3] - m[2][3] * m[3][2])
    - m[1][2] * (m[2][1] * m[3][3] - m[2][3] * m[3][1])
    + m[1][3] * (m[2][1] * m[3][2] - m[2][2] * m[3][1])

\* A polynomial a*k^2 + b*k + c with rational coefficients a/den, b/den, c/den.
Poly(a, b, c, den) == [ a |-> a, b |-> b, c |-> c, den |-> den ]

\* The least-squares conditions (normal equations) of a degree-2 fit
NormalEquations(p, xs, ys) ==
    LET S(k) == SumPow(xs, Ones(xs), k)
        T(k) == SumPow(xs, ys, k)
    IN  /\ S(4) * p.a + S(3) * p.b + S(2) * p.c = T(2) * p.den
        /\ S(3) * p.a + S(2) * p.b + S(1) * p.c = T(1) * p.den
        /\ S(2) * p.a + S(1) * p.b + S(0) * p.c = T(0) * p.den

CoefRange == (0 - 1) .. 1

\* line 62, np.polyfit(x, y, 2): the least-squares parabola. With three or
\* more distinct x it is unique. With fewer the system is rank deficient:
\* numpy warns (RankWarning), raises nothing and returns one of the
\* least-squares solutions; which one is numpy's choice, so the result is
\* any of them (here: the one of lower degree, and those with coefficients
\* in CoefRange).
PolyFit(xs, ys) ==
    LET S(k) == SumPow(xs, Ones(xs), k)
        T(k) == SumPow(xs, ys, k)
        D == Det3(<< << S(4), S(3), S(2) >>, << S(3), S(2), S(1) >>, << S(2), S(1), S(0) >> >>)
        Da == Det3(<< << T(2), S(3), S(2) >>, << T(1), S(2), S(1) >>, << T(0), S(1), S(0) >> >>)
        Db == Det3(<< << S(4), T(2), S(2) >>, << S(3), T(1), S(1) >>, << S(2), T(0), S(0) >> >>)
        Dc == Det3(<< << S(4), S(3), T(2) >>, << S(3), S(2), T(1) >>, << S(2), S(1), T(0) >> >>)
        D2 == S(2) * S(0) - S(1) * S(1)
        lower == IF D2 # 0
                 THEN Poly(0, T(1) * S(0) - S(1) * T(0), S(2) * T(0) - S(1) * T(1), D2)
                 ELSE Poly(0, 0, T(0), S(0))
    IN  IF D # 0 THEN { Poly(Da, Db, Dc, D) }
        ELSE { lower } \cup
             { p \in { Poly(a, b, c, 1) : a \in CoefRange, b \in CoefRange, c \in CoefRange } :
                 NormalEquations(p, xs, ys) }

\* selected_energy_array.argmin() / .argmax(): the first index of the extreme
ArgMin(ys) == CHOOSE i \in 1 .. Len(ys) :
    /\ \A j \in 1 .. Len(ys) : ys[i] <= ys[j]
    /\ \A j \in 1 .. (i - 1) : ys[j] > ys[i]
ArgMax(ys) == CHOOSE i \in 1 .. Len(ys) :
    /\ \A j \in 1 .. Len(ys) : ys[i] >= ys[j]
    /\ \A j \in 1 .. (i - 1) : ys[j] < ys[i]

\* line 63: -p[1]/2/p[2], as a fraction (den 0: the float division gives inf/nan)
AxisFitted(p) == [ num |-> 0 - p.b, den |-> 2 * p.a ]

\* line 64
AxisActual(p, xs, ys) == IF p.a > 0 THEN xs[ArgMin(ys)] ELSE xs[ArgMax(ys)]

\* line 69: d2E_dk2 = e * p[2] / (2 * pi / scaling_const) ** 2, as a fraction
\* in units of e / (2 pi / scaling_const)^2
D2EDk2(p) == [ num |-> p.a, den |-> p.den ]

\* line 70: h_bar ** 2 / d2E_dk2 / m_e, as a fraction in units of
\* h_bar^2 (2 pi / scaling_const)^2 / (e m_e)
EffectiveMassReduced(d2) == [ num |-> d2.den, den |-> d2.num ]

\* lines 59-71: the results the call can give
get_reduced_effective_mass(band, kp_start, kp_end, axisvals, table) ==
    LET xs == Slice(axisvals, kp_start, kp_end)
        ys == [ i \in 1 .. Len(Slice(table, kp_start, kp_end)) |->
                  At(Slice(table, kp_start, kp_end)[i], band) ]
    IN  IF xs = <<>> \/ Len(xs) # Len(ys)
        THEN { [ err |-> "TypeError" ] }
        ELSE { [ err |-> "", p |-> p, axis_fitted |-> AxisFitted(p),
                 axis_actual |-> AxisActual(p, xs, ys),
                 effective_mass_reduced |-> EffectiveMassReduced(D2EDk2(p)) ] :
               p \in PolyFit(xs, ys) }

\* ---- get_tdos, get_ldos (dos.py) ------------------------------------------
\* helpers.determine_tag_value('LORBIT', filepath)
determine_tag_value_LORBIT(fs) ==
    IF fs.tagLORBIT = None THEN Raise("MissingMetadata") ELSE Ok(fs.tagLORBIT)

\* dos.py 46-50, 76-79, 177-181, 223-226
DosISPIN(argISPIN, fileISPIN) ==
    IF TruthyNum(argISPIN) THEN Ok(argISPIN) ELSE fileISPIN

\* dos.py 183-186, 227-230
DosLORBIT(argLORBIT, fs) ==
    IF TruthyNum(argLORBIT) THEN Ok(argLORBIT) ELSE determine_tag_value_LORBIT(fs)

\* dos.py 45, 75, 176, 222: Ef is read from the file whatever the caller passed
DosEfXml(argEf, xml) == Some(xml.efermi)
DosEfDoscar(argEf, rows) == Some(At(At(rows, 5), 3))

\* the number of columns of a table: 3 for the total DOS (dos.py 53), 4 or 10
\* for the projected DOS (dos.py 189-192), 0 when LORBIT is none of 0, 1, 10, 11
DosWidth(fn, lorbit) ==
    IF fn = "get_tdos" THEN 3
    ELSE IF lorbit \in { Some(10), Some(0) } THEN 4
    ELSE IF lorbit \in { Some(11), Some(1) } THEN 10
    ELSE 0

\* dos.py 53-56: np.zeros((NEDOS, width)) filled row by row from the nodes
FillRows(nodes, nedos, width) ==
    IF nodes # <<>> /\ width = 0 THEN Raise("NameError")
    ELSE IF Len(nodes) > nedos THEN Raise("IndexError")
    ELSE IF \E n \in 1 .. Len(nodes) : Len(nodes[n]) # width THEN Raise("ValueError")
    ELSE Ok([ n \in 1 .. nedos |->
                IF n <= Len(nodes) THEN nodes[n] ELSE [ c \in 1 .. width |-> 0 ] ])

\* the <r> nodes of the total DOS (dos.py 54-55) or of ion atom (dos.py 193-195)
DosNodes(fn, xml, atom, spin) ==
    IF fn = "get_tdos"
    THEN IF spin \in DOMAIN xml.total THEN xml.total[spin] ELSE <<>>
    ELSE IF atom \in DOMAIN xml.partial /\ spin \in DOMAIN xml.partial[atom]
         THEN xml.partial[atom][spin] ELSE <<>>

\* dos.py 81, 232: the NEDOS rows of the total DOS, or of atom's block
DoscarBlock(fn, rows, nedos, atom) ==
    IF fn = "get_tdos" THEN Slice(rows, 6, 6 + nedos - 1)
    ELSE Slice(rows, 6 + (nedos + 1) * atom, 6 + (nedos + 1) * atom + nedos - 1)

\* dos.py 83-84, 235-239: data[:, [0, 1, 3, ...]] and data[:, [0, 2, 4, ...]],
\* copies of the chosen columns
UpCols(width) == << 0 >> \o [ c \in 1 .. (width - 1) |-> 2 * c - 1 ]
DownCols(width) == << 0 >> \o [ c \in 1 .. (width - 1) |-> 2 * c ]

TakeCols(data, cols) ==
    IF \E i \in 1 .. Len(data), c \in 1 .. Len(cols) : ~InRange(data[i], cols[c])
    THEN Raise("IndexError")
    ELSE Ok([ i \in 1 .. Len(data) |-> [ c \in 1 .. Len(cols) |-> At(data[i], cols[c]) ] ])

\* dos.py 89, 94-95, 247, 258-259: data[:, 0] -= Ef
ShiftColumn0(data, ef) ==
    [ i \in 1 .. Len(data) |-> << data[i][1] - ef >> \o Tail(data[i]) ]

\* dos.py 90, 96-97: a DataFrame takes as many columns as it has names
FrameOk(data, width) == \A i \in 1 .. Len(data) : Len(data[i]) = width

\* column c (0-based) of a table
Column(data, c) == [ i \in 1 .. Len(data) |-> At(data[i], c) ]

\* the columns drawn: 'tot' alone for the total DOS (dos.py 106, 114), every
\* orbital column for the projected DOS (dos.py 271-275, 284-288)
PlottedCols(fn, data) ==
    IF fn = "get_tdos" THEN { 1 }
    ELSE IF data = <<>> THEN {} ELSE 1 .. (Len(data[1]) - 1)

\* up minus down at every energy
SpinDifference(up, down, c) ==
    [ x |-> Column(up, 0),
      y |-> [ i \in 1 .. Len(up) |-> At(up[i], c) - At(down[i], c) ] ]

\* dos.py 114, 285, 288: plt.plot(data1[:, 0], data1[:, c] + data2[:, c])
SpinCombined(up, down, c) ==
    [ x |-> Column(up, 0),
      y |-> [ i \in 1 .. Len(up) |-> At(up[i], c) + At(down[i], c) ] ]

\* dos.py 119-120, 295-299: spin up as it is, spin down mirrored
SpinSeparated(up, down, c) ==
    << [ x |-> Column(up, 0), y |-> Column(up, c) ],
       [ x |-> Column(down, 0), y |-> [ i \in 1 .. Len(down) |-> 0 - At(down[i], c) ] ] >>

\* dos.py 100-128, 264-308: the curves drawn from the shifted tables
DosPlots(fn, ispin, dict) ==
    IF ispin = Some(1)
    THEN LET cols == PlottedCols(fn, dict.data)
         IN  [ single |-> [ c \in cols |->
                              [ x |-> Column(dict.data, 0), y |-> Column(dict.data, c) ] ] ]
    ELSE LET cols == PlottedCols(fn, dict.data_spin_up)
         IN  [ combined |-> [ c \in cols |->
                                SpinCombined(dict.data_spin_up, dict.data_spin_down, c) ],
               separated |-> [ c \in cols |->
                                 SpinSeparated(dict.data_spin_up, dict.data_spin_down, c) ] ]

\* What either function leaves: the exception, ISPIN, Ef, and the tables
\* returned (data for ISPIN 1, data_spin_up and data_spin_down for ISPIN 2).
DosResult(e, ispin, ef, dict) == [ err |-> e, ISPIN |-> ispin, Ef |-> ef, dict |-> dict ]

\* dos.py 41-98 and 172-262: the tables
GetDos(fn, a, fs) ==
    LET isXml == DosDispatch(a.filepath) = "xml"
        src == IF isXml THEN parse(fs).val ELSE Val(fs.primary)
        ef == IF isXml THEN DosEfXml(a.Ef, src) ELSE DosEfDoscar(a.Ef, src)
        nedos == IF isXml THEN src.NEDOS ELSE At(At(src, 5), 2)
        ispin == DosISPIN(a.ISPIN, IF isXml THEN Ok(Some(src.ISPIN)) ELSE determine_tag_value(fs))
        lorbit == IF fn = "get_tdos" THEN Ok(None) ELSE DosLORBIT(a.LORBIT, fs)
        width == DosWidth(fn, lorbit.val)
        block == DoscarBlock(fn, src, nedos, a.atom)
        one == IF isXml THEN FillRows(DosNodes(fn, src, a.atom, 1), nedos, width)
               ELSE Ok(block)
        up == IF isXml THEN FillRows(DosNodes(fn, src, a.atom, 1), nedos, width)
              ELSE IF width = 0 THEN Raise("NameError") ELSE TakeCols(block, UpCols(width))
        down == IF isXml THEN FillRows(DosNodes(fn, src, a.atom, 2), nedos, width)
                ELSE IF width = 0 THEN Raise("NameError") ELSE TakeCols(block, DownCols(width))
    IN  IF DosDispatch(a.filepath) = "none" THEN DosResult("NameError", a.ISPIN, a.Ef, <<>>)
        ELSE IF isXml /\ parse(fs).err # "" THEN DosResult(parse(fs).err, a.ISPIN, a.Ef, <<>>)
        ELSE IF ispin.err # "" THEN DosResult(ispin.err, a.ISPIN, ef, <<>>)
        ELSE IF lorbit.err # "" THEN DosResult(lorbit.err, ispin.val, ef, <<>>)
        ELSE IF ispin.val = Some(1)
        THEN IF one.err # "" THEN DosResult(one.err, ispin.val, ef, <<>>)
             ELSE IF width = 0 THEN DosResult("NameError", ispin.val, ef, <<>>)
             ELSE IF ~FrameOk(one.val, width) THEN DosResult("ValueError", ispin.val, ef, <<>>)
             ELSE DosResult("", ispin.val, ef, [ data |-> ShiftColumn0(one.val, Val(ef)) ])
        ELSE IF ispin.val = Some(2)
        THEN IF up.err # "" THEN DosResult(up.err, ispin.val, ef, <<>>)
             ELSE IF down.err # "" THEN DosResult(down.err, ispin.val, ef, <<>>)
             ELSE DosResult("", ispin.val, ef,
                            [ data_spin_up |-> ShiftColumn0(up.val, Val(ef)),
                              data_spin_down |-> ShiftColumn0(down.val, Val(ef)) ])
        ELSE DosResult("NameError", ispin.val, ef, <<>>)

\* ---- the calls' inputs ----------------------------------------------------
Energies == 0 .. MaxEnergy

\* k-points of the model: the points of the x axis, and one off it
KCoords == { << x, 0, 0 >> : x \in 0 .. MaxCoord } \cup { << 0, 1, 1 >> }

RECURSIVE SeqsOf(_, _)
\* the sequences of length n over S
SeqsOf(S, n) ==
    IF n = 0 THEN { <<>> }
    ELSE { Append(q, x) : q \in SeqsOf(S, n - 1), x \in S }

\* Eigenvalues of a run from the energies of band 1, spin 1: band b lies
\* b - 1 above band 1 and spin 2 one above spin 1, wrapping at MaxEnergy.
RawFrom(first, ispin, nbands) ==
    [ s \in 1 .. ispin |->
        [ kp \in 1 .. Len(first) |->
            [ b \in 1 .. nbands |-> (first[kp] + (b - 1) + (s - 1)) % (MaxEnergy + 1) ] ] ]

RunOf(ispin, ef, nbands, per, kpts, first) ==
    [ ISPIN |-> ispin, Ef |-> ef, NBANDS |-> nbands, per |-> per, kpts |-> kpts,
      raw |-> RawFrom(first, ispin, nbands) ]

Labels3 == << "G", "X", "M" >>
LabelsOutcar == << "G", "X", "G" >>
LabelsKpoints == << "L", "G", "X" >>

\* a straight line of three k-points, and two sections of two k-points
KLine3 == << << 0, 0, 0 >>, << 1, 0, 0 >>, << 2, 0, 0 >> >>
KTwoSections == << << 0, 0, 0 >>, << 1, 0, 0 >>, << 1, 0, 0 >>, << 2, 1, 1 >> >>

PlotArgs(path, ispin, ef, per, labels) ==
    [ input_file |-> path, ISPIN |-> ispin, Ef |-> ef,
      N_kps_per_section |-> per, reciprocal_points |-> labels ]

Files(kind, primary, outcar, doscar, kpoints, tag) ==
    [ kind |-> kind, primary |-> primary, OUTCAR |-> outcar, DOSCAR |-> doscar,
      KPOINTS |-> kpoints, tagISPIN |-> tag ]

\* Working directories of an EIGENVAL run: everything there; OUTCAR without
\* an "E-fermi :" line, with two, without the marker line, or missing (with
\* DOSCAR there, cut short, or missing too); KPOINTS missing or without its
\* number; the ISPIN tag nowhere to be found.
EigenvalDirs(run) ==
    LET full == Some(OutcarFile(<< 3 >>, TRUE, LabelsOutcar, run.kpts))
        dos == Some(DoscarHeader(1, 4))
        kpo == Some(KpointsFile(LabelsKpoints, Some(2)))
        tag == Some(run.ISPIN)
        eig == Some(EigenvalFile(run))
    IN  { Files("table", eig, full, dos, kpo, tag),
          Files("table", eig, Some(OutcarFile(<<>>, TRUE, LabelsOutcar, run.kpts)), dos, kpo, tag),
          Files("table", eig, Some(OutcarFile(<< 4, 3 >>, TRUE, LabelsOutcar, run.kpts)), None, kpo, tag),
          Files("table", eig, Some(OutcarFile(<< 3 >>, FALSE, <<>>, <<>>)), dos, kpo, tag),
          Files("table", eig, None, dos, kpo, tag),
          Files("table", eig, None, Some(<< << 0 >> >>), kpo, tag),
          Files("table", eig, None, None, kpo, tag),
          Files("table", eig, full, dos, None, tag),
          Files("table", eig, full, dos, Some(KpointsFile(LabelsKpoints, None)), tag),
          Files("table", eig, full, dos, kpo, None),
          Files("table", eig, None, dos, None, tag),
          Files("table", eig, Some(OutcarFile(<< 3 >>, FALSE, <<>>, <<>>)), dos, None, tag) }

\* every state before a call: nothing resolved, nothing built
Blank ==
    /\ pc = "start" /\ err = "" /\ parser = ""
    /\ ISPIN = None /\ Ef = None /\ N_bands = 0 /\ N_kps = 0
    /\ N_kps_per_section = None /\ N_kp_sections = 0
    /\ reciprocal_points = None /\ kps = <<>>
    /\ reciprocal_point_locations = <<>> /\ kps_linearized = <<>>
    /\ E = <<>> /\ E_spin1 = <<>> /\ E_spin2 = <<>>
    /\ return_dict = <<>> /\ result = <<>> /\ plotted = <<>>

\* Calls of plot_bs that differ in what the caller passes and in which files
\* are there and what they hold; one run of two sections of two k-points. A
\* vasprun.xml numbers its k-point sets from tagBase: VASP writes 'kpoint 1'
\* for the first, plot_bs asks for 'kpoint 0'.
InitMeta ==
    /\ Blank
    /\ call = "plot_bs" /\ then = [ fn |-> "stop" ]
    /\ \E ispin \in 1 .. 2,
          aISPIN \in { None, Some(1), Some(2) },
          aEf \in { None, Some(0), Some(2) },
          aPer \in { None, Some(1), Some(3) },
          aLabels \in { None, Some(<<>>), Some(Labels3) } :
        LET run == RunOf(ispin, 1, 1, 2, KTwoSections, << 1, 0, 2, 3 >>)
        IN  \/ \E nsec \in 1 .. 2, tagBase \in 0 .. 1,
                  outcar \in { None, Some(OutcarFile(<< 3 >>, TRUE, LabelsOutcar, run.kpts)),
                               Some(OutcarFile(<< 3 >>, FALSE, <<>>, <<>>)) },
                  kpoints \in { None, Some(KpointsFile(LabelsKpoints, Some(2))) } :
                /\ source = run
                /\ args = PlotArgs(PathXml, aISPIN, aEf, aPer, aLabels)
                /\ files = Files("xml", Some(XmlFile(run, nsec, tagBase)), outcar, None, kpoints, None)
            \/ \E nbands \in 1 .. MaxBands :
                LET runB == RunOf(ispin, 1, nbands, 2, KTwoSections, << 1, 0, 2, 3 >>)
                IN  \E fs \in EigenvalDirs(runB) :
                        /\ source = runB
                        /\ args = PlotArgs(PathEigenval, aISPIN, aEf, aPer, aLabels)
                        /\ files = fs
            \/ /\ source = run
               /\ args = PlotArgs(PathEigenvalUnderXml, aISPIN, aEf, aPer, aLabels)
               /\ files = Files("table", Some(EigenvalFile(run)),
                                Some(OutcarFile(<< 3 >>, TRUE, LabelsOutcar, run.kpts)),
                                Some(DoscarHeader(1, 4)),
                                Some(KpointsFile(LabelsKpoints, Some(2))), Some(run.ISPIN))
            \/ /\ source = run
               /\ args = PlotArgs(PathOther, aISPIN, aEf, aPer, aLabels)
               /\ files = Files("none", None, None, None, None, None)

\* Calls of plot_bs with nothing passed and every file there, that differ in
\* the k-points and in how they are cut into sections.
InitAxis ==
    /\ Blank
    /\ call = "plot_bs" /\ then = [ fn |-> "stop" ]
    /\ \E n \in 1 .. MaxKps, path \in { PathXml, PathEigenval } :
       \E kpts \in SeqsOf(KCoords, n), per \in { d \in 1 .. n : n % d = 0 } :
        LET run == RunOf(1, 1, 1, per, kpts, [ i \in 1 .. n |-> i % (MaxEnergy + 1) ])
        IN  /\ source = run
            /\ args = PlotArgs(path, None, None, None, None)
            /\ files = Files(IF path = PathXml THEN "xml" ELSE "table",
                             IF path = PathXml THEN Some(XmlFile(run, n \div per, 0))
                                               ELSE Some(EigenvalFile(run)),
                             Some(OutcarFile(<< run.Ef >>, TRUE, LabelsOutcar, kpts)),
                             None, Some(KpointsFile(LabelsKpoints, Some(per))),
                             Some(1))

\* Calls of plot_bs on a fixed path that differ in the eigenvalues, followed
\* by the caller's analysis of the result.
InitEnergy ==
    /\ Blank
    /\ call = "plot_bs" /\ then = [ fn |-> "analyse" ]
    /\ \E shape \in { << KLine3, 3, Energies >>,
                      << KTwoSections, 2, 0 .. (MaxEnergy \div 2) >> } :
       \E first \in SeqsOf(shape[3], Len(shape[1])) :
        LET run == RunOf(1, 1, MaxBands, shape[2], shape[1], first)
        IN  /\ source = run
            /\ args = PlotArgs(PathEigenval, None, None, None, None)
            /\ files = Files("table", Some(EigenvalFile(run)),
                             Some(OutcarFile(<< run.Ef >>, TRUE, LabelsOutcar, shape[1])),
                             None, Some(KpointsFile(LabelsKpoints, Some(shape[2]))),
                             Some(1))

DosArgs(path, ispin, ef, atom, lorbit, plot) ==
    [ filepath |-> path, ISPIN |-> ispin, Ef |-> ef, atom |-> atom, LORBIT |-> lorbit,
      plot |-> plot ]

DosFiles(kind, primary, tagI, tagL) ==
    [ kind |-> kind, primary |-> primary, tagISPIN |-> tagI, tagLORBIT |-> tagL ]

\* Calls of get_tdos and get_ldos that differ in what the caller passes and in
\* what the file and the tags hold.
InitDos ==
    /\ Blank
    /\ then = [ fn |-> "stop" ]
    /\ \E path \in { PathXml, PathDoscar, PathDoscarUnderXml }, ispin \in 1 .. 2,
          n \in 1 .. MaxNEDOS,
          aISPIN \in { None, Some(1), Some(2) }, aEf \in { None, Some(2) },
          plot \in BOOLEAN :
       \E energies \in SeqsOf(0 .. 2, n) :
        LET run == DosRun(ispin, 1, energies, 2)
            kind == IF path = PathXml THEN "xml" ELSE "table"
            primary == IF path = PathXml THEN Some(XmlDosFile(run)) ELSE Some(DoscarFile(run))
        IN  /\ source = run
            /\ \/ /\ call = "get_tdos"
                  /\ args = DosArgs(path, aISPIN, aEf, 0, None, plot)
                  /\ \E tag \in { None, Some(ispin) } : files = DosFiles(kind, primary, tag, None)
               \/ /\ call = "get_ldos"
                  /\ \E atom \in 1 .. 2, aLORBIT \in { None, Some(11) }, tagL \in { None, Some(10) } :
                       /\ args = DosArgs(path, aISPIN, aEf, atom, aLORBIT, plot)
                       /\ files = DosFiles(kind, primary, Some(ispin), tagL)

\* ---- plot_bs, step by step -----------------------------------------------
\* lines 141-245: resolve the metadata and read the k-points
PlotBsResolve ==
    /\ call = "plot_bs" /\ pc = "start"
    /\ LET m == ResolveMeta(args, files)
       IN  /\ parser' = BsDispatch(args.input_file)
           /\ ISPIN' = m.ISPIN /\ Ef' = m.Ef
           /\ N_bands' = m.N_bands /\ N_kps' = m.N_kps
           /\ N_kps_per_section' = m.N_kps_per_section
           /\ N_kp_sections' = m.N_kp_sections
           /\ reciprocal_points' = m.reciprocal_points
           /\ kps' = m.kps
           /\ err' = m.err
           /\ pc' = IF m.err = "" THEN "resolved" ELSE "failed"
    /\ UNCHANGED << inputs, axis, tables, return_dict, result, plotted >>

\* lines 247-262: the section boundaries and the linearized axis
PlotBsLinearize ==
    /\ call = "plot_bs" /\ pc = "resolved"
    /\ LET per == Val(N_kps_per_section)
           locations == ReciprocalPointLocations(KpSectionPairs(kps, per, N_kp_sections))
       IN  /\ reciprocal_point_locations' = locations
           /\ kps_linearized' = KpsLinearized(locations, per, N_kp_sections)
    /\ pc' = "linearized"
    /\ UNCHANGED << inputs, err, meta, tables, return_dict, result, plotted >>

\* lines 278-315: read the eigenvalues, one table (ISPIN 1) or two (ISPIN 2)
PlotBsExtract ==
    /\ call = "plot_bs" /\ pc = "linearized"
    /\ LET t1 == Extract(args, files, 1, N_kps, N_bands)
           t2 == Extract(args, files, 2, N_kps, N_bands)
       IN  IF ISPIN = Some(1)
           THEN /\ E' = IF t1.err = "" THEN t1.val ELSE E
                /\ UNCHANGED << E_spin1, E_spin2 >>
                /\ err' = t1.err
                /\ pc' = IF t1.err = "" THEN "extracted" ELSE "failed"
           ELSE IF ISPIN = Some(2)
           THEN /\ E_spin1' = IF t1.err = "" THEN t1.val ELSE E_spin1
                /\ E_spin2' = IF t1.err = "" /\ t2.err = "" THEN t2.val ELSE E_spin2
                /\ UNCHANGED E
                /\ err' = IF t1.err # "" THEN t1.err ELSE t2.err
                /\ pc' = IF t1.err = "" /\ t2.err = "" THEN "extracted" ELSE "failed"
           ELSE /\ UNCHANGED << tables, err >>
                /\ pc' = "extracted"
    /\ UNCHANGED << inputs, meta, axis, return_dict, result, plotted >>

\* lines 273-276, 328-331, 344-351: the dict returned
ReturnDict1(labels, locations, axisvals, table) ==
    [ reciprocal_points |-> labels, reciprocal_point_locations |-> locations,
      data |-> ColumnStack(axisvals, table) ]

ReturnDict2(labels, locations, axisvals, up, down) ==
    [ reciprocal_points |-> labels, reciprocal_point_locations |-> locations,
      spin_up_data |-> ColumnStack(axisvals, up),
      spin_down_data |-> ColumnStack(axisvals, down) ]

\* lines 317-359: shift the tables by Ef, plot, return. The subtraction fails
\* when Ef is None; plotting and column_stack fail when the axis and the
\* tables differ in length; whether Axis.set_ticklabels(None) (line 78) fails
\* is matplotlib's business, so both outcomes are possible; with ISPIN
\* neither 1 nor 2 no table exists and line 358 fails (close_figs is False).
PlotBsShiftReturn ==
    /\ call = "plot_bs" /\ pc = "extracted"
    /\ IF ISPIN \notin { Some(1), Some(2) }
       THEN /\ err' = "NameError" /\ pc' = "failed"
            /\ UNCHANGED << tables, return_dict >>
       ELSE IF Ef = None
       THEN /\ err' = "TypeError" /\ pc' = "failed"
            /\ UNCHANGED << tables, return_dict >>
       ELSE /\ IF ISPIN = Some(1)
               THEN E' = Shift(E, Val(Ef)) /\ UNCHANGED << E_spin1, E_spin2 >>
               ELSE /\ E_spin1' = Shift(E_spin1, Val(Ef))
                    /\ E_spin2' = Shift(E_spin2, Val(Ef))
                    /\ UNCHANGED E
            /\ IF Len(kps_linearized) # N_kps
               THEN /\ err' = "ValueError" /\ pc' = "failed"
                    /\ UNCHANGED return_dict
               ELSE \E labelsRejected \in { FALSE, reciprocal_points = None } :
                    IF labelsRejected
                    THEN /\ err' = "TypeError" /\ pc' = "failed"
                         /\ UNCHANGED return_dict
                    ELSE /\ err' = "" /\ pc' = "returned"
                         /\ return_dict' =
                              IF ISPIN = Some(1)
                              THEN ReturnDict1(reciprocal_points, reciprocal_point_locations,
                                               kps_linearized, E')
                              ELSE ReturnDict2(reciprocal_points, reciprocal_point_locations,
                                               kps_linearized, E_spin1', E_spin2')
    /\ UNCHANGED << inputs, meta, axis, result, plotted >>

\* ---- the caller's analysis of plot_bs's result ---------------------------
TableNames == IF ISPIN = Some(1) THEN { "data" } ELSE { "spin_up_data", "spin_down_data" }

\* the energy columns of a returned table, and its k-axis column
EnergyColumns(t) == [ kp \in 1 .. Len(t) |-> Tail(t[kp]) ]
AxisColumn(t) == [ kp \in 1 .. Len(t) |-> t[kp][1] ]

FindBandEdges ==
    /\ call = "plot_bs" /\ pc = "returned" /\ then.fn = "analyse"
    /\ \E name \in TableNames, kp_edge \in Range0(N_kps), prec_range \in 0 .. MaxEnergy :
        /\ then' = [ fn |-> "find_band_edges", table |-> name,
                     kp_edge |-> kp_edge, prec_range |-> prec_range ]
        /\ result' = find_band_edges(kp_edge, prec_range, EnergyColumns(return_dict[name]))
    /\ pc' = "done"
    /\ UNCHANGED << call, args, files, source, err, meta, axis, tables, return_dict, plotted >>

GetReducedEffectiveMass ==
    /\ call = "plot_bs" /\ pc = "returned" /\ then.fn = "analyse"
    /\ \E name \in TableNames, band \in Range0(N_bands),
          kp_start \in Range0(N_kps), kp_end \in Range0(N_kps) :
        /\ kp_start <= kp_end
        /\ then' = [ fn |-> "get_reduced_effective_mass", table |-> name,
                     band |-> band, kp_start |-> kp_start, kp_end |-> kp_end ]
        /\ result' \in get_reduced_effective_mass(band, kp_start, kp_end,
                           AxisColumn(return_dict[name]), EnergyColumns(return_dict[name]))
    /\ pc' = "done"
    /\ UNCHANGED << call, args, files, source, err, meta, axis, tables, return_dict, plotted >>

\* ---- get_tdos, get_ldos ---------------------------------------------------
\* dos.py 9-130, 133-311: the whole call, its plots included
GetDosCall ==
    /\ call \in { "get_tdos", "get_ldos" } /\ pc = "start"
    /\ LET r == GetDos(call, args, files)
       IN  /\ parser' = DosDispatch(args.filepath)
           /\ ISPIN' = r.ISPIN /\ Ef' = r.Ef
           /\ return_dict' = r.dict
           /\ err' = r.err
           /\ pc' = IF r.err = "" THEN "returned" ELSE "failed"
           /\ plotted' = IF r.err = "" /\ args.plot
                          THEN DosPlots(call, r.ISPIN, r.dict) ELSE plotted
    /\ UNCHANGED << inputs, N_bands, N_kps, N_kps_per_section, N_kp_sections,
                    reciprocal_points, kps, axis, tables, result >>

\* ---- specification --------------------------------------------------------
Init == InitMeta \/ InitAxis \/ InitEnergy \/ InitDos

Next ==
    \/ PlotBsResolve
    \/ PlotBsLinearize
    \/ PlotBsExtract
    \/ PlotBsShiftReturn
    \/ FindBandEdges
    \/ GetReducedEffectiveMass
    \/ GetDosCall

Spec == Init /\ [][Next]_vars

\* ---- properties -----------------------------------------------------------
IsXmlCall == call = "plot_bs" /\ MatchXml(args.input_file) /\ files.kind = "xml"
IsEigenvalCall ==
    call = "plot_bs" /\ ~MatchXml(args.input_file) /\ MatchEigenval(args.input_file)

\* plot_bs has resolved its metadata and not failed since
Resolved == call = "plot_bs" /\ pc \in { "resolved", "linearized", "extracted", "returned", "done" }
\* plot_bs has built its k-axis and not failed since
AxisBuilt == call = "plot_bs" /\ pc \in { "linearized", "extracted", "returned", "done" }
Returned == call = "plot_bs" /\ pc \in { "returned", "done" }

\* C1: in plot_bs an explicit ISPIN, Ef, N_kps_per_section or
\* reciprocal_points is the value used, unchanged, for both input formats and
\* whatever the files hold.
C1_ExplicitValueUsed ==
    Resolved =>
        /\ args.ISPIN # None => ISPIN = args.ISPIN
        /\ args.Ef # None => Ef = args.Ef
        /\ args.N_kps_per_section # None => N_kps_per_section = args.N_kps_per_section
        /\ args.reciprocal_points # None => reciprocal_points = args.reciprocal_points

\* what each auxiliary file supplies, None when it supplies nothing
OutcarEf(fs) ==
    IF fs.OUTCAR # None /\ Val(fs.OUTCAR).efermi # <<>>
    THEN Some(Last(Val(fs.OUTCAR).efermi)) ELSE None
DoscarEf(fs) ==
    IF fs.DOSCAR # None /\ Len(Val(fs.DOSCAR)) >= 6 /\ Len(Val(fs.DOSCAR)[6]) >= 4
    THEN Some(Val(fs.DOSCAR)[6][4]) ELSE None
KpointsPer(fs) == IF fs.KPOINTS # None THEN Val(fs.KPOINTS).line1 ELSE None

\* the value of the first source of the list that supplies one
FirstSupplied(sources) ==
    IF \E i \in 1 .. Len(sources) : sources[i] # None
    THEN sources[CHOOSE i \in 1 .. Len(sources) :
                    sources[i] # None /\ \A j \in 1 .. (i - 1) : sources[j] = None]
    ELSE None

\* C2: with EIGENVAL input and no explicit value, a field is resolved from
\* the first of its sources that supplies it (Ef: OUTCAR, then DOSCAR;
\* N_kps_per_section: KPOINTS; ISPIN: the tag of OUTCAR/INCAR), and when no
\* source supplies it the call fails: it never goes on with the field unset.
C2_FirstSourceOrFailure ==
    (IsEigenvalCall /\ Resolved) =>
        /\ args.Ef = None =>
             Ef # None /\ Ef = FirstSupplied(<< OutcarEf(files), DoscarEf(files) >>)
        /\ args.N_kps_per_section = None =>
             N_kps_per_section # None /\ N_kps_per_section = KpointsPer(files)
        /\ args.ISPIN = None => ISPIN # None /\ ISPIN = files.tagISPIN

\* no labels passed, and none to be found in OUTCAR or KPOINTS
LabelsUnresolvable ==
    /\ call = "plot_bs"
    /\ args.reciprocal_points = None
    /\ files.OUTCAR = None \/ ~Val(files.OUTCAR).marker
    /\ files.KPOINTS = None

\* everything but the labels is passed explicitly and fits the primary file:
\* spin channel 1, a Fermi energy, and a segmentation that matches the number
\* of k-points
NothingElseMissing ==
    /\ args.ISPIN = Some(1) /\ TruthyNum(args.Ef)
    /\ \/ /\ IsXmlCall
          /\ Val(files.primary).divisions * (Val(files.primary).ngen - 1)
                = Len(Val(files.primary).kpointlist)
       \/ /\ IsEigenvalCall
          /\ TruthyNum(args.N_kps_per_section)
          /\ Len(source.kpts) % Val(args.N_kps_per_section) = 0

\* C3: when no labels are passed and none can be resolved, plot_bs does not
\* abort for that: with everything else in place the call does not fail, for
\* both input formats.
C3_LabelsNotFatal ==
    (LabelsUnresolvable /\ NothingElseMissing) => pc # "failed"

\* C4: plot_bs builds no axis unless N_kps_per_section * N_kp_sections equals
\* the number of k-points; an EIGENVAL run whose k-point count is no multiple
\* of N_kps_per_section is rejected, not truncated.
C4_InconsistentCountRejected ==
    AxisBuilt => Val(N_kps_per_section) * N_kp_sections = N_kps

\* ---- C5: the linearized axis ----------------------------------------------
NonDecreasing(s) == \A i \in 1 .. (Len(s) - 1) : s[i] <= s[i + 1]
StrictlyIncreasing(s) == \A i \in 1 .. (Len(s) - 1) : s[i] < s[i + 1]

\* the length of section i (0-based): the distance from the first to the last
\* of its k-points, as plot_bs holds them in kps
SectionLength(i) ==
    LET per == Val(N_kps_per_section)
        d == Diff(At(kps, per * (i + 1) - 1), At(kps, per * i))
    IN  ISqrt(d[1] * d[1] + d[2] * d[2] + d[3] * d[3])

\* what C5 says of the axis itself: non-decreasing, from 0 to the sum of the
\* section lengths, and one boundary more than there are sections, boundary i
\* being the axis value of the first k-point of section i
AxisShape ==
    /\ NonDecreasing(kps_linearized)
    /\ kps_linearized # <<>>
    /\ kps_linearized[1] = 0
    /\ Last(kps_linearized) = SumSeq([ i \in 1 .. N_kp_sections |-> SectionLength(i - 1) ])
    /\ Len(reciprocal_point_locations) = N_kp_sections + 1
    /\ \A i \in Range0(N_kp_sections) :
         At(reciprocal_point_locations, i) = At(kps_linearized, Val(N_kps_per_section) * i)

\* C5 (as stated): for every k-point sequence and segmentation plot_bs
\* accepts, kps_linearized is non-decreasing, starts at 0 and ends at the sum
\* of the section lengths, and reciprocal_point_locations (N_kp_sections + 1
\* entries) is strictly increasing, entry i being the axis value of the first
\* k-point of section i.
C5_BoundariesStrictlyIncreasing ==
    AxisBuilt => AxisShape /\ StrictlyIncreasing(reciprocal_point_locations)

\* C5 (amended): as stated, but reciprocal_point_locations is non-decreasing,
\* and it increases from entry i to entry i + 1 exactly when the first and
\* the last k-point of section i differ.
C5_BoundariesNonDecreasing ==
    AxisBuilt =>
        /\ AxisShape
        /\ NonDecreasing(reciprocal_point_locations)
        /\ \A i \in Range0(N_kp_sections) :
             At(reciprocal_point_locations, i) < At(reciprocal_point_locations, i + 1)
                <=> At(kps, Val(N_kps_per_section) * i)
                      # At(kps, Val(N_kps_per_section) * (i + 1) - 1)

\* an axis of several sections of several k-points, one section of length 0
\* and one of positive length
C5_Witness ==
    /\ AxisBuilt
    /\ N_kp_sections >= 2 /\ Val(N_kps_per_section) >= 2
    /\ \E i \in Range0(N_kp_sections) : SectionLength(i) = 0
    /\ \E i \in Range0(N_kp_sections) : SectionLength(i) > 0
    /\ Last(kps_linearized) > 0

\* ---- C6: the shift by Ef -------------------------------------------------
\* the energy tables plot_bs returned, spin 1 first
ReturnedBandTables ==
    IF ISPIN = Some(1) THEN << EnergyColumns(return_dict.data) >>
    ELSE << EnergyColumns(return_dict.spin_up_data),
            EnergyColumns(return_dict.spin_down_data) >>

\* the spin channel of a table get_tdos / get_ldos returned
DosSpin(name) == IF name = "data_spin_down" THEN 2 ELSE 1

\* C6: every entry of every energy table plot_bs returns is the run's
\* eigenvalue for that k-point, band and spin, minus Ef, and the energy column
\* of every table get_tdos / get_ldos returns is the run's energy minus Ef:
\* shifted once, never twice, never left unshifted. (A table for a spin
\* channel the run does not have has no eigenvalue to compare with.)
C6_TablesAreRawMinusEf ==
    /\ Returned =>
         \A s \in 1 .. Len(ReturnedBandTables) :
            s \in DOMAIN source.raw =>
                /\ Len(ReturnedBandTables[s]) = Len(source.kpts)
                /\ \A kp \in 1 .. Len(source.kpts), band \in 1 .. source.NBANDS :
                     ReturnedBandTables[s][kp][band] = source.raw[s][kp][band] - Val(Ef)
    /\ (call \in { "get_tdos", "get_ldos" } /\ pc = "returned") =>
         \A name \in DOMAIN return_dict :
            DosSpin(name) <= source.ISPIN =>
                /\ Len(return_dict[name]) = Len(source.energies)
                /\ \A i \in 1 .. Len(source.energies) :
                     return_dict[name][i][1] = source.energies[i] - Val(Ef)

\* ---- C7 - C9: get_reduced_effective_mass ---------------------------------
\* get_reduced_effective_mass was called on a range kp_start < kp_end
MassCalled ==
    pc = "done" /\ then.fn = "get_reduced_effective_mass" /\ then.kp_start < then.kp_end

\* the axis values and the energies of the k-points kp_start .. kp_end, both
\* included, as the caller passed them
FitAxis ==
    [ i \in 1 .. (then.kp_end - then.kp_start + 1) |->
        At(AxisColumn(return_dict[then.table]), then.kp_start + i - 1) ]
FitEnergies ==
    [ i \in 1 .. (then.kp_end - then.kp_start + 1) |->
        At(At(EnergyColumns(return_dict[then.table]), then.kp_start + i - 1), then.band) ]

\* the fit is determined: three or more distinct axis values in the range
FitDetermined == Cardinality(SeqRange(FitAxis)) >= 3

\* C7: the mass returned is h_bar^2 / (2 a e / (2 pi / L)^2) / m_e with a the
\* leading coefficient of the fit: in units of h_bar^2 (2 pi / L)^2 / (e m_e)
\* it is 1 / (2 a), a being p.a / p.den. (Stated for a determined fit with
\* a # 0.)
C7_CurvatureIsTwiceA ==
    (MassCalled /\ FitDetermined /\ result.err = "" /\ result.p.a # 0) =>
        result.effective_mass_reduced.num * 2 * result.p.a
            = result.effective_mass_reduced.den * result.p.den

\* the samples lie on E = (a k^2 + b k + c) / den
OnParabola(a, b, c, den) ==
    \A i \in 1 .. Len(FitAxis) :
        den * FitEnergies[i] = a * FitAxis[i] * FitAxis[i] + b * FitAxis[i] + c

\* the axis values of the samples of least and of greatest energy
MinimumAt == { FitAxis[i] : i \in { j \in 1 .. Len(FitAxis) :
                 \A k \in 1 .. Len(FitAxis) : FitEnergies[j] <= FitEnergies[k] } }
MaximumAt == { FitAxis[i] : i \in { j \in 1 .. Len(FitAxis) :
                 \A k \in 1 .. Len(FitAxis) : FitEnergies[j] >= FitEnergies[k] } }

\* C8: when the energies of kp_start .. kp_end lie on a parabola
\* a k^2 + b k + c with a # 0 (three or more distinct axis values, so that
\* the samples determine it), the fit is (a, b, c), axis_fitted is
\* -b / (2 a), and axis_actual is the axis value of a sample of least energy
\* when a > 0, of greatest energy when a < 0. The parabolas tried are
\* (a k^2 + b k + c) / 2 with integers a, b, c, c being what the first sample
\* makes it.
C8_FitRecoversParabola ==
    (MassCalled /\ FitDetermined) =>
        \A den \in { 2 } :
        \A a \in (0 - 2 * MaxEnergy) .. (2 * MaxEnergy),
           b \in (0 - 4 * MaxEnergy) .. (4 * MaxEnergy) :
            LET c == den * FitEnergies[1] - a * FitAxis[1] * FitAxis[1] - b * FitAxis[1]
            IN
            (a # 0 /\ OnParabola(a, b, c, den)) =>
                /\ result.err = ""
                /\ result.p.den # 0
                /\ result.p.a * den = a * result.p.den
                /\ result.p.b * den = b * result.p.den
                /\ result.p.c * den = c * result.p.den
                /\ result.axis_fitted.den # 0
                /\ result.axis_fitted.num * 2 * a = (0 - b) * result.axis_fitted.den
                /\ result.axis_actual \in (IF a > 0 THEN MinimumAt ELSE MaximumAt)

\* the example of the claim: axis 0, 1, 2 and energies 4, 1, 4 give
\* a = 3, b = -6, c = 4 and both extrema at k = 1
C8_Witness ==
    /\ MassCalled
    /\ then.kp_start = 0 /\ then.kp_end = 2
    /\ FitAxis = << 0, 1, 2 >> /\ FitEnergies = << 4, 1, 4 >>
    /\ result.err = ""
    /\ result.p.a = 3 * result.p.den /\ result.p.b = (0 - 6) * result.p.den
    /\ result.p.c = 4 * result.p.den
    /\ result.axis_fitted.num = result.axis_fitted.den
    /\ result.axis_actual = 1

\* C9: with fewer than three distinct axis values among kp_start .. kp_end
\* the call fails; it returns no effective mass.
C9_UnderdeterminedFitFails ==
    (MassCalled /\ ~FitDetermined) => result.err # ""

\* ---- C10: find_band_edges -------------------------------------------------
EdgesCalled == pc = "done" /\ then.fn = "find_band_edges"

\* the energies of k-point kp_edge, band by band
EdgeRow == At(EnergyColumns(return_dict[then.table]), then.kp_edge)

\* C10: find_band_edges completes without error and gives exactly the bands b
\* with -prec_range < E[kp_edge, b] < 0 as valence candidates and exactly
\* those with 0 < E[kp_edge, b] < prec_range as conduction candidates (none
\* when prec_range <= 0).
C10_BandEdgesFound ==
    EdgesCalled =>
        /\ result.err = ""
        /\ result.valence = { b \in Range0(Len(EdgeRow)) :
                                0 - then.prec_range < At(EdgeRow, b) /\ At(EdgeRow, b) < 0 }
        /\ result.conduction = { b \in Range0(Len(EdgeRow)) :
                                   0 < At(EdgeRow, b) /\ At(EdgeRow, b) < then.prec_range }

\* ---- C11: the two tables of a spin-polarized run --------------------------
DosReturned == call \in { "get_tdos", "get_ldos" } /\ pc = "returned"

\* a run of two spin channels, read as one
TwoSpins == ISPIN = Some(2) /\ source.ISPIN = 2

\* two tables of the same shape and with the same first column
SameShapeAndAxis(up, down) ==
    /\ Len(up) = Len(down)
    /\ \A i \in 1 .. Len(up) : Len(up[i]) = Len(down[i]) /\ up[i][1] = down[i][1]

\* C11: for a run of two spin channels plot_bs, get_tdos and get_ldos return
\* exactly two tables, spin up and spin down, of the same shape and with the
\* same first column (k-axis, energy), and the spin-combined curve get_tdos /
\* get_ldos draw for a density column is, energy by energy, the sum of that
\* column of the two tables.
C11_TwoTablesAndTheirSum ==
    /\ (Returned /\ TwoSpins) =>
        /\ DOMAIN return_dict = { "reciprocal_points", "reciprocal_point_locations",
                                  "spin_up_data", "spin_down_data" }
        /\ SameShapeAndAxis(return_dict.spin_up_data, return_dict.spin_down_data)
        /\ Len(return_dict.spin_up_data) = N_kps
        /\ \A kp \in 1 .. N_kps : Len(return_dict.spin_up_data[kp]) = N_bands + 1
    /\ (DosReturned /\ TwoSpins) =>
        /\ DOMAIN return_dict = { "data_spin_up", "data_spin_down" }
        /\ SameShapeAndAxis(return_dict.data_spin_up, return_dict.data_spin_down)
        /\ Len(return_dict.data_spin_up) = Len(source.energies)
        /\ args.plot =>
            /\ DOMAIN plotted.combined =
                 (IF call = "get_tdos" THEN { 1 }
                  ELSE 1 .. (Len(return_dict.data_spin_up[1]) - 1))
            /\ \A c \in DOMAIN plotted.combined :
                /\ Len(plotted.combined[c].y) = Len(source.energies)
                /\ \A i \in 1 .. Len(source.energies) :
                    /\ plotted.combined[c].x[i] = return_dict.data_spin_up[i][1]
                    /\ plotted.combined[c].y[i] =
                         return_dict.data_spin_up[i][c + 1] + return_dict.data_spin_down[i][c + 1]

\* get_ldos drew the spin-combined curves of a run of two spin channels whose
\* spin-down densities are not all 0
C11_Witness ==
    /\ DosReturned /\ TwoSpins /\ call = "get_ldos" /\ args.plot
    /\ Len(source.energies) >= 2
    /\ \E c \in DOMAIN plotted.combined, i \in 1 .. Len(source.energies) :
         return_dict.data_spin_down[i][c + 1] # 0

\* ---- C12: an explicit Ef in get_tdos / get_ldos ---------------------------
\* C12: when the caller of get_tdos / get_ldos passes Ef, the energy column of
\* every table returned is the run's energy minus that Ef, not minus the
\* Fermi energy of the DOSCAR or vasprun.xml, for both formats. (A table for
\* a spin channel the run does not have has no energy to compare with.)
C12_ExplicitEfShiftsDos ==
    (DosReturned /\ args.Ef # None) =>
        \A name \in DOMAIN return_dict :
            DosSpin(name) <= source.ISPIN =>
                /\ Len(return_dict[name]) = Len(source.energies)
                /\ \A i \in 1 .. Len(source.energies) :
                     return_dict[name][i][1] = source.energies[i] - Val(args.Ef)

\* ---- C13: format dispatch -------------------------------------------------
Dispatched == parser # ""
EndsWithXml(path) == Last(path) = ".xml"
CallPath == IF call = "plot_bs" THEN args.input_file ELSE args.filepath
NamesTable(path) == IF call = "plot_bs" THEN MatchEigenval(path) ELSE MatchDoscar(path)

\* C13: in get_tdos, get_ldos and plot_bs a path is sent to the XML reader
\* exactly when it ends with ".xml", and a path that holds DOSCAR (EIGENVAL for
\* plot_bs) and does not end with ".xml" is sent to the tabular reader; ".xml"
\* somewhere before the end of the path does not make it an XML file.
C13_XmlOnlyBySuffix ==
    Dispatched =>
        /\ (parser = "xml") <=> EndsWithXml(CallPath)
        /\ (NamesTable(CallPath) /\ ~EndsWithXml(CallPath)) => parser = "table"

\* ---- C14: section lengths from the k-points of the source -----------------
\* the length of section i (0-based) measured on the source's k-points
SourceSectionLength(i) ==
    LET per == Val(N_kps_per_section)
        d == Diff(At(source.kpts, per * (i + 1) - 1), At(source.kpts, per * i))
    IN  ISqrt(d[1] * d[1] + d[2] * d[2] + d[3] * d[3])

\* C14: for vasprun.xml and for EIGENVAL, the k-points plot_bs works with are
\* the (x, y, z) triples of the source in source order, boundary 0 is 0, and
\* boundary i + 1 is boundary i plus the Euclidean distance, over all three
\* coordinates, from the first to the last k-point of section i.
C14_SectionLengthsFromSourceTriples ==
    AxisBuilt =>
        /\ kps = source.kpts
        /\ At(reciprocal_point_locations, 0) = 0
        /\ \A i \in Range0(N_kp_sections) :
             At(reciprocal_point_locations, i + 1)
                = At(reciprocal_point_locations, i) + SourceSectionLength(i)

\* ---- C15: the rows of EIGENVAL --------------------------------------------
\* the separator row and the k-point row of block kp (0-based), and the row
\* after the block
BlockSeparatorRow(kp) == 6 + (N_bands + 2) * kp
BlockHeaderRow(kp) == 7 + (N_bands + 2) * kp
BlockEnd(kp) == 6 + (N_bands + 2) * (kp + 1)

\* plot_bs on EIGENVAL has filled its tables and not shifted them yet
EigenvalExtracted == IsEigenvalCall /\ pc = "extracted"

ExtractedTable(spin) == IF ISPIN = Some(1) THEN E ELSE IF spin = 1 THEN E_spin1 ELSE E_spin2

\* C15: for EIGENVAL input, entry (kp, band) of the table is token 1 (spin 1)
\* or token 2 (spin 2) of row 8 + band + (N_bands + 2) * kp; over
\* 0 <= kp < N_kps and 0 <= band < N_bands these rows are pairwise distinct,
\* lie inside block kp of N_bands + 2 rows, and are never the k-point row or
\* the separator row of a block: each is the row the file holds for that band
\* of that k-point.
C15_RowsAreTheBandRows ==
    (IsEigenvalCall /\ Resolved) =>
        /\ \A kp \in Range0(N_kps), band \in Range0(N_bands) :
             LET row == EigenvalRow(kp, band, N_bands)
             IN  /\ \A kp2 \in Range0(N_kps), band2 \in Range0(N_bands) :
                       row = EigenvalRow(kp2, band2, N_bands) => (kp2 = kp /\ band2 = band)
                 /\ BlockSeparatorRow(kp) < row /\ row < BlockEnd(kp)
                 /\ \A kp2 \in Range0(N_kps) :
                       row # BlockHeaderRow(kp2) /\ row # BlockSeparatorRow(kp2)
                 /\ InRange(Val(files.primary), row)
                 /\ At(Val(files.primary), row) = EigenvalBandRow(source, kp + 1, band + 1)
                 /\ pc = "extracted" =>
                       \A spin \in 1 .. Val(ISPIN) :
                           ExtractedTable(spin)[kp + 1][band + 1]
                              = At(At(Val(files.primary), row), spin)
        /\ \A kp \in Range0(N_kps) :
             /\ At(Val(files.primary), BlockSeparatorRow(kp)) = <<>>
             /\ At(Val(files.primary), BlockHeaderRow(kp)) = At(source.kpts, kp) \o << 1 >>

\* two spin channels, several k-points and several bands read from EIGENVAL,
\* the last band of a k-point differing from the first band of the next
C15_Witness ==
    /\ EigenvalExtracted
    /\ ISPIN = Some(2) /\ N_kps >= 2 /\ N_bands >= 2
    /\ E_spin1[1][N_bands] # E_spin1[2][1]
    /\ E_spin1 # E_spin2

\* ---- C16: extraction is all-or-nothing ------------------------------------
\* the source holds a value where plot_bs looks for entry (kp, band) of the
\* table of spin channel spin (kp and band 0-based)
EntryInSource(spin, kp, band) ==
    IF parser = "xml"
    THEN band < Len(XmlNodes(Val(files.primary), spin, kp))
    ELSE /\ InRange(Val(files.primary), EigenvalRow(kp, band, N_bands))
         /\ InRange(At(Val(files.primary), EigenvalRow(kp, band, N_bands)), spin)

\* C16: plot_bs returns its tables only if every entry (k-point, band, spin)
\* was read from the source; when the EIGENVAL row or the vasprun.xml node of
\* some entry is missing, the call fails and returns nothing, and no table
\* comes back with entries that were never read (left at 0, then shifted).
C16_NoPartialTables ==
    Returned =>
        \A spin \in 1 .. Val(ISPIN), kp \in Range0(N_kps), band \in Range0(N_bands) :
            EntryInSource(spin, kp, band)

====
